---- MODULE Spec2Model ----
(***************************************************************************)
(* Model of the BEAM feed aggregator (package beam): the content model     *)
(* (Feed, Entry, validation), the fetcher, the aggregation cycle           *)
(* FetchAllFeeds with its fan-out/fan-in over a buffered channel, the      *)
(* RWMutex discipline of the Aggregator methods and the HTTP serving of    *)
(* the aggregated feed.                                                    *)
(*                                                                         *)
(* Conventions.  A Go string is a sequence of one-character strings, so    *)
(* that prefix tests, trimming and formatting are computed, not assumed.   *)
(* A time.Time is a natural number of seconds; 0 is the zero time.Time     *)
(* and NilTime is a nil *time.Time.  A Go error is a sequence of tokens    *)
(* (its message); the nil error is the empty sequence.  A *Feed is an      *)
(* address in the heap `feeds`, a function from the addresses in use to    *)
(* Feed values; NilFeed is the nil pointer.  A feed no goroutine and no    *)
(* field refers to any more is reclaimed and its address may be reused.    *)
(***************************************************************************)
EXTENDS Integers, Sequences, FiniteSets, TLC

\* ------------------------------------------------------------------ bounds
MaxSources == 2        \* AddSource is called at most this many times
MaxCycles == 2         \* FetchAllFeeds is started at most this many times
MaxTime == 2           \* the clock runs from 1 to MaxTime
BigLen == 51           \* the number of items of a large feed document
MaxTicks == 3          \* the number of times the ticker fires
MaxItems == 2          \* the number of items of a feed a user of the library loads
MaxValidated == 3      \* the number of items of a feed given to Validate alone

\* ------------------------------------------------------- program constants
maxEntries == 100
homeMaxEntries == 10
StatusOK == 200

Version == "1.0"
NilTime == -1
NilFeed == 0
NoError == << >>

\* ----------------------------------------------------------------- strings
S_http == <<"h", "t", "t", "p", ":", "/", "/">>
S_https == <<"h", "t", "t", "p", "s", ":", "/", "/">>

HasPrefix(s, prefix) ==
    /\ Len(s) >= Len(prefix)
    /\ SubSeq(s, 1, Len(prefix)) = prefix

RECURSIVE TrimLeft(_)
TrimLeft(s) ==
    IF s # << >> /\ Head(s) = " " THEN TrimLeft(Tail(s)) ELSE s

RECURSIVE TrimRight(_)
TrimRight(s) ==
    IF s # << >> /\ s[Len(s)] = " " THEN TrimRight(SubSeq(s, 1, Len(s) - 1)) ELSE s

TrimSpace(s) == TrimRight(TrimLeft(s))

isValidURL(str) ==
    IF str = << >> THEN FALSE
    ELSE HasPrefix(str, S_http) \/ HasPrefix(str, S_https)

\* ------------------------------------------------------------------ errors
NewError(field, message) == <<"validation error in field", field, message>>

\* ----------------------------------------------------------- content model
EntryValidate(e) ==
    IF TrimSpace(e.ID) = << >> THEN NewError("id", "id is required")
    ELSE IF TrimSpace(e.Title) = << >> THEN NewError("title", "title is required")
    ELSE IF ~isValidURL(e.URL) THEN NewError("url", "url must be a valid URL")
    ELSE IF e.Published = 0 THEN NewError("published", "published timestamp is required")
    ELSE IF e.Image # << >> /\ ~isValidURL(e.Image)
         THEN NewError("image", "image must be a valid URL")
    ELSE NoError

\* Variant: the loop validates the entries and looks for no duplicates.
RECURSIVE ValidateItems_NoDuplicateCheck(_, _, _)
ValidateItems_NoDuplicateCheck(items, i, entryIDs) ==
    IF i > Len(items) THEN NoError
    ELSE LET err == EntryValidate(items[i]) IN
         IF err # NoError THEN <<"entry", ToString(i - 1)>> \o err
         ELSE ValidateItems_NoDuplicateCheck(items, i + 1, entryIDs)

\* The loop of Feed.Validate over f.Items from position i on, entryIDs being
\* the identifiers seen so far.
RECURSIVE ValidateItems(_, _, _)
ValidateItems(items, i, entryIDs) ==
    IF i > Len(items) THEN NoError
    ELSE LET err == EntryValidate(items[i]) IN
         IF err # NoError THEN <<"entry", ToString(i - 1)>> \o err
         ELSE IF items[i].ID \in entryIDs
              THEN NewError("items", "duplicate entry ID")
         ELSE ValidateItems(items, i + 1, entryIDs \cup {items[i].ID})

FeedValidate(f) ==
    IF f.Version # Version THEN NewError("version", "unsupported version")
    ELSE IF TrimSpace(f.Title) = << >> THEN NewError("title", "title is required")
    ELSE IF ~isValidURL(f.FeedURL) THEN NewError("feed_url", "feed_url must be a valid URL")
    ELSE IF f.HomePageURL # << >> /\ ~isValidURL(f.HomePageURL)
         THEN NewError("home_page_url", "home_page_url must be a valid URL")
    ELSE ValidateItems(f.Items, 1, {})

\* Variant: the new feed has no timestamp.
NewFeed_Unstamped(title, feedURL, t) ==
    [Version |-> Version, Title |-> title, Description |-> << >>,
     HomePageURL |-> << >>, FeedURL |-> feedURL, Language |-> << >>,
     LastUpdated |-> NilTime, Items |-> << >>]

NewFeed(title, feedURL, t) ==
    [Version |-> Version, Title |-> title, Description |-> << >>,
     HomePageURL |-> << >>, FeedURL |-> feedURL, Language |-> << >>,
     LastUpdated |-> t, Items |-> << >>]

AddEntry(f, entry, t) ==
    [f EXCEPT !.Items = Append(@, entry), !.LastUpdated = t]

SetDescription(f, description) == [f EXCEPT !.Description = description]

SetLanguage(f, language) == [f EXCEPT !.Language = language]

\* -------------------------------------------------------------- feed hash
\* json.Marshal of one Entry: the keys in the order of the struct's fields,
\* those tagged omitempty left out when empty.
MarshalEntry(e) ==
    <<"{", "id:">> \o e.ID \o <<"title:">> \o e.Title
        \o (IF e.Summary # << >> THEN <<"summary:">> \o e.Summary ELSE << >>)
        \o <<"url:">> \o e.URL \o <<"published:", ToString(e.Published)>>
        \o (IF e.Image # << >> THEN <<"image:">> \o e.Image ELSE << >>)
        \o <<"}">>

\* json.Marshal(f.Items)
RECURSIVE MarshalItems(_)
MarshalItems(items) ==
    IF items = << >> THEN << >>
    ELSE MarshalEntry(Head(items)) \o MarshalItems(Tail(items))

\* Variant: the hash covers the number of entries only.
ComputeFeedHash_CountOnly(f) == <<"sha256", <<ToString(Len(f.Items))>>>>

\* ComputeFeedHash: hex(sha256(json.Marshal(f.Items))); SHA-256 is taken to be
\* injective, so the hash is the serialized text under a tag.
ComputeFeedHash(f) == <<"sha256", MarshalItems(f.Items)>>

\* ValidateFeedHash(expectedHash)
ValidateFeedHash(f, expectedHash) ==
    IF ComputeFeedHash(f) # expectedHash
    THEN <<"feed hash mismatch: data may not be trustworthy">>
    ELSE NoError

\* --------------------------------------------------------------- wire format
\* A JSON item and a JSON feed document as a remote source serves them.
Item(id, summary, published) ==
    [id |-> id, title |-> <<"t">>, summary |-> summary,
     url |-> S_http \o id, published |-> published, image |-> << >>]

Doc(items) ==
    [version |-> Version, title |-> <<"R">>, feed_url |-> S_http \o <<"r">>,
     home_page_url |-> << >>, last_updated |-> NilTime, items |-> items]

\* An HTTP exchange as the fetcher sees it: client.Get failed (connection
\* error or timeout), or a response with a status code and a body that is a
\* JSON document or not.  From records which source was asked in which cycle
\* (history information carried into the decoded entries as Origin).
Response(transportErr, statusCode, wellFormed, doc) ==
    [TransportErr |-> transportErr, StatusCode |-> statusCode,
     WellFormed |-> wellFormed, Doc |-> doc, From |-> <<0, 0>>]

\* json.Decoder.Decode into a zero Feed: each JSON key fills its field.
DecodeEntry(it, from) ==
    [ID |-> it.id, Title |-> it.title, Summary |-> it.summary, URL |-> it.url,
     Published |-> it.published, Image |-> it.image, Origin |-> from]

Decode(resp) ==
    IF ~resp.WellFormed
    THEN [feed |-> << >>, err |-> <<"unexpected end of JSON input">>]
    ELSE [feed |-> << [Version |-> resp.Doc.version, Title |-> resp.Doc.title,
                       Description |-> << >>,
                       HomePageURL |-> resp.Doc.home_page_url,
                       FeedURL |-> resp.Doc.feed_url, Language |-> << >>,
                       LastUpdated |-> resp.Doc.last_updated,
                       Items |-> [j \in 1..Len(resp.Doc.items) |->
                                     DecodeEntry(resp.Doc.items[j], resp.From)]] >>,
          err |-> NoError]

\* ----------------------------------------------------------------- fetcher
\* Variant: a decoded document is returned as it is.
fetchFeedWithTimeout_NoValidate(resp) ==
    IF resp.TransportErr
    THEN [feed |-> << >>, err |-> <<"HTTP request failed:", "timeout or connection error">>]
    ELSE IF resp.StatusCode # StatusOK
    THEN [feed |-> << >>, err |-> <<"HTTP error:", ToString(resp.StatusCode)>>]
    ELSE LET d == Decode(resp) IN
         IF d.err # NoError
         THEN [feed |-> << >>, err |-> <<"JSON decode error:">> \o d.err]
         ELSE [feed |-> d.feed, err |-> NoError]

\* The result is [feed, err]: feed is << >> (nil) or <<f>>.
fetchFeedWithTimeout(resp) ==
    IF resp.TransportErr
    THEN [feed |-> << >>, err |-> <<"HTTP request failed:", "timeout or connection error">>]
    ELSE IF resp.StatusCode # StatusOK
    THEN [feed |-> << >>, err |-> <<"HTTP error:", ToString(resp.StatusCode)>>]
    ELSE LET d == Decode(resp) IN
         IF d.err # NoError
         THEN [feed |-> << >>, err |-> <<"JSON decode error:">> \o d.err]
         ELSE LET verr == FeedValidate(d.feed[1]) IN
              IF verr # NoError
              THEN [feed |-> << >>, err |-> <<"feed validation error:">> \o verr]
              ELSE [feed |-> d.feed, err |-> NoError]

\* ------------------------------------------------------------- sort.Slice
\* sort.Slice(allEntries, less) with less(i, j) = Published[i].After(Published[j]):
\* the result is a permutation of the slice ordered by less; the sort is not
\* stable, so entries with equal Published may come out in any order.
Perms(S) ==
    {p \in [1..Cardinality(S) -> S] : \A x, y \in 1..Cardinality(S) : x # y => p[x] # p[y]}

\* The latest Published among s[lo..hi] (0 if there is none).
RECURSIVE MaxPublished(_, _, _)
MaxPublished(s, lo, hi) ==
    IF lo > hi THEN 0
    ELSE IF lo = hi THEN s[lo].Published
    ELSE LET mid == (lo + hi) \div 2
             x == MaxPublished(s, lo, mid)
             y == MaxPublished(s, mid + 1, hi)
         IN  IF x > y THEN x ELSE y

\* The orderings of the entries of s whose Published lies in lo..hi, latest
\* first: the entries of one timestamp in any order, those of a later
\* timestamp before those of an earlier one.
RECURSIVE SortFrom(_, _, _)
SortFrom(s, lo, hi) ==
    IF lo > hi THEN {<< >>}
    ELSE IF lo = hi
    THEN LET G == {i \in 1..Len(s) : s[i].Published = lo} IN
         {[j \in 1..Cardinality(G) |-> s[p[j]]] : p \in Perms(G)}
    ELSE LET mid == (lo + hi) \div 2 IN
         {later \o earlier : later \in SortFrom(s, mid + 1, hi),
                             earlier \in SortFrom(s, lo, mid)}

\* Variant: oldest first.
SortSlice_Ascending(s) ==
    {[j \in 1..Len(r) |-> r[Len(r) + 1 - j]] : r \in SortFrom(s, 0, MaxPublished(s, 1, Len(s)))}

\* Variant: the slice is left in the order in which it was filled.
SortSlice_Unsorted(s) == {s}

SortSlice(s) == SortFrom(s, 0, MaxPublished(s, 1, Len(s)))

\* ------------------------------------------------- FetchAllFeeds, in pieces
\* Variant: the channel has room for one result less than there are workers.
ChanCap_OneLess(n) == n - 1

\* The capacity of the results channel: make(chan fetchResult, len(a.Sources)).
ChanCap(n) == n

\* Variant: every goroutine tags its result with the same index.
WorkerIndex_Shared(k) == 1

\* The index a worker goroutine tags its result with: go func(index int, ...)(i, source).
WorkerIndex(k) == k

\* Variant: the entry is collected as fetched.
Enrich_Unchanged(entry, name) == entry

\* fmt.Sprintf("[%s] %s", name, summary) and fmt.Sprintf("From %s", name).
Enrich(entry, name) ==
    IF entry.Summary # << >>
    THEN [entry EXCEPT !.Summary = <<"[">> \o name \o <<"]", " ">> \o entry.Summary]
    ELSE [entry EXCEPT !.Summary = <<"F", "r", "o", "m", " ">> \o name]

\* Variant: a success leaves the stored error message in place.
UpdateSource_KeepMsg(src, result, t) ==
    IF result.err # NoError
    THEN [src EXCEPT !.LastFetch = t, !.Status = "error", !.ErrorMsg = result.err]
    ELSE [src EXCEPT !.LastFetch = t, !.Status = "active"]

\* The body of the collecting loop for one result: the source's bookkeeping.
UpdateSource(src, result, t) ==
    IF result.err # NoError
    THEN [src EXCEPT !.LastFetch = t, !.Status = "error", !.ErrorMsg = result.err]
    ELSE [src EXCEPT !.LastFetch = t, !.Status = "active", !.ErrorMsg = << >>]

\* Variant: an entry whose identifier was collected before is left out.
CollectEntries_Dedup(allEntries, result, name) ==
    IF result.err # NoError THEN allEntries
    ELSE LET IsNew(e) == \A i \in 1..Len(allEntries) : allEntries[i].ID # e.ID
         IN  allEntries \o SelectSeq([j \in 1..Len(result.feed[1].Items) |->
                                         Enrich(result.feed[1].Items[j], name)], IsNew)

\* The body of the collecting loop for one result: the entries it contributes.
CollectEntries(allEntries, result, name) ==
    IF result.err # NoError THEN allEntries
    ELSE allEntries \o [j \in 1..Len(result.feed[1].Items) |->
                           Enrich(result.feed[1].Items[j], name)]

\* Variant: the slice is not cut.
Cap_Off(entries) == entries

\* if len(allEntries) > maxEntries { allEntries = allEntries[:maxEntries] }
Cap(entries) ==
    IF Len(entries) > maxEntries THEN SubSeq(entries, 1, maxEntries) ELSE entries

\* for _, entry := range allEntries { aggregatedFeed.AddEntry(entry) }: all
\* iterations but the last append their entry, the last one is AddEntry as
\* it stands (so the feed's LastUpdated is the one AddEntry sets).
AddEntries(f, entries, t) ==
    IF entries = << >> THEN f
    ELSE AddEntry([f EXCEPT !.Items = @ \o SubSeq(entries, 1, Len(entries) - 1)],
                  entries[Len(entries)], t)

\* Variant: the entries are added to the feed already published.
BuildFeed_Append(old, entries, nsources, t) == AddEntries(old, entries, t)

\* Lines 225-232: the new feed built from the sorted, capped entries.
BuildFeed(old, entries, nsources, t) ==
    AddEntries(
        SetLanguage(
            SetDescription(NewFeed(old.Title, old.FeedURL, t),
                           <<"Aggregated content from", nsources, "sources">>),
            <<"e", "n", "-", "U", "S">>),
        entries, t)

\* Variant: a cycle in which no fetch succeeded reports an error.
FetchAllFeedsResult_NeedSuccess(nsources, successCount) ==
    IF successCount = 0 THEN <<"all sources failed">> ELSE NoError

\* The value FetchAllFeeds returns: its only return statement is return nil.
FetchAllFeedsResult(nsources, successCount) == NoError

\* ------------------------------------------------------------------- stats
CountStatus(srcs, status) == Cardinality({k \in 1..Len(srcs) : srcs[k].Status = status})

\* The map GetStats returns, or "panic" when it dereferences a nil feed.
GetStatsMap(srcs, feedPtr, heap) ==
    IF feedPtr = NilFeed THEN [panic |-> TRUE]
    ELSE [panic |-> FALSE,
          total_sources |-> Len(srcs),
          active_sources |-> CountStatus(srcs, "active"),
          error_sources |-> CountStatus(srcs, "error"),
          total_entries |-> Len(heap[feedPtr].Items),
          last_updated |-> heap[feedPtr].LastUpdated]

\* ----------------------------------------------------------------- serving
\* fmt.Sprintf(`"beam-%d-%d"`, f.LastUpdated.Unix(), len(f.Items))
ETag(f) == <<"beam-", f.LastUpdated, "-", Len(f.Items)>>

NoTag == << >>

\* Variant: the validator is never honoured.
FeedServeHTTP_Always200(f, inm) ==
    [code |-> 200, ETag |-> ETag(f), LastModified |-> f.LastUpdated, body |-> <<f>>]

\* Feed.ServeHTTP: the response to a request whose If-None-Match header is inm.
FeedServeHTTP(f, inm) ==
    IF inm = ETag(f)
    THEN [code |-> 304, ETag |-> ETag(f), LastModified |-> f.LastUpdated, body |-> << >>]
    ELSE [code |-> 200, ETag |-> ETag(f), LastModified |-> f.LastUpdated, body |-> <<f>>]

\* Aggregator.ServeHTTP below its RLock.
AggregatorServeHTTP(feedPtr, heap, inm) ==
    IF feedPtr = NilFeed
    THEN [code |-> 503, ETag |-> NoTag, LastModified |-> NilTime, body |-> << >>]
    ELSE FeedServeHTTP(heap[feedPtr], inm)

\* ------------------------------------------------------------------- state
VARIABLES
    now,             \* the wall clock, in seconds
    Sources,         \* a.Sources: the slice header [arr, len, cap]
    backing,         \* the arrays slices point into: a sequence of sequences
    feeds,           \* the heap of Feed objects
    AggregatedFeed,  \* a.AggregatedFeed: a pointer into feeds
    mu,              \* a.mu: [w |-> holder of the write lock, r |-> read holders]
    pc,              \* the position of every goroutine
    fa,              \* the locals of each caller's FetchAllFeeds activation
    ncycles,         \* the number of FetchAllFeeds calls started
    statsRes,        \* what the last GetStats returned
    serveRes,        \* what the last Aggregator.ServeHTTP answered
    hp,              \* the locals of the HomePage handler
    sr,              \* the locals of a reader of the source list
    sched,           \* the ticker and the goroutine of StartAutoRefresh
    lib              \* a feed in the hands of a user of the library

vars == <<now, Sources, backing, feeds, AggregatedFeed, mu, pc, fa, ncycles,
          statsRes, serveRes, hp, sr, sched, lib>>

\* The goroutines: the auto-refresh loop and a manual trigger call
\* FetchAllFeeds; the others are HTTP handlers.
Callers == {"auto", "manual"}
Procs == Callers \cup {"stats", "serve", "home", "srcs"}

NoHolder == "none"

\* a.Sources as a sequence (1-based: model index k is Go index k-1).
Srcs == SubSeq(backing[Sources.arr], 1, Sources.len)

InCycle(c) == pc[c] \in {"collect", "publish", "ret"}

TitleA == <<"T">>
FeedURLA == S_http \o <<"a">>

NoResult == [index |-> 0, feed |-> << >>, err |-> NoError]

NoActivation ==
    [n |-> 0, cap |-> 0, results |-> << >>, wpc |-> << >>, wres |-> << >>,
     allEntries |-> << >>, successCount |-> 0, i |-> 0, aggregatedFeed |-> NilFeed,
     err |-> NoError,
     \* history of the activation: its number, its start time, how often each
     \* source was fetched and had a result processed, the sources whose fetch
     \* succeeded, the sources and the published feed as the cycle found them,
     \* the number of entries collected before the cap, the response each
     \* source was served, the collected entries as they were before the sort
     id |-> 0, start |-> 0, fetched |-> << >>, processed |-> << >>, ok |-> {},
     pre |-> << >>, old |-> NilFeed, collected |-> 0, served |-> << >>,
     unsorted |-> << >>]

\* No request served yet.  Besides the response a served request leaves
\* history: its If-None-Match header, the number of cycles run when it was
\* answered, and the ETag and cycle count of the response before it.
NoResponse ==
    [code |-> 0, ETag |-> NoTag, LastModified |-> NilTime, body |-> << >>,
     inm |-> NoTag, n |-> 0, prevETag |-> NoTag, prevN |-> 0]

\* The scheduler before StartAutoRefresh: ticks counts the times the ticker
\* has fired, pending the ticks in the buffer of ticker.C, dropped the ticks
\* that found the buffer full, calls the FetchAllFeeds calls the goroutine
\* has gone on to make.
NoScheduler == [started |-> FALSE, ticks |-> 0, pending |-> 0, dropped |-> 0, calls |-> 0]

\* No feed loaded.  op is the last operation applied, before the feed as it
\* was before that operation, err the error the operation returned; hash and
\* hashOf are the last hash computed and the items it was computed of,
\* prevHash and prevHashOf those of the computation before; expected is the
\* argument of the last ValidateFeedHash.
NoLib ==
    [feed |-> << >>, op |-> "none", before |-> << >>, err |-> NoError,
     hash |-> << >>, hashOf |-> << >>, prevHash |-> << >>, prevHashOf |-> << >>,
     expected |-> << >>]

NoHeader == [arr |-> 0, len |-> 0, cap |-> 0]
NoHomePage ==
    [lastUpdated |-> NilTime, hdr |-> NoHeader, k |-> 0, srcs |-> << >>,
     maxEntries |-> 0, i |-> 0, entries |-> << >>, panicked |-> FALSE]
NoReader == [hdr |-> NoHeader, k |-> 0, srcs |-> << >>]

\* NewAggregator(title, feedURL)
Init ==
    /\ now = 1
    /\ Sources = [arr |-> 1, len |-> 0, cap |-> 0]
    /\ backing = << << >> >>
    /\ feeds = (1 :> NewFeed(TitleA, FeedURLA, 1))
    /\ AggregatedFeed = 1
    /\ mu = [w |-> NoHolder, r |-> {}]
    /\ pc = [p \in Procs |-> "idle"]
    /\ fa = [c \in Callers |-> NoActivation]
    /\ ncycles = 0
    /\ statsRes = [panic |-> FALSE, total_sources |-> 0, active_sources |-> 0,
                   error_sources |-> 0, total_entries |-> 0, last_updated |-> 1]
    /\ serveRes = NoResponse
    /\ hp = NoHomePage
    /\ sr = NoReader
    /\ sched = NoScheduler
    /\ lib = NoLib

\* ------------------------------------------------------------------ RWMutex
\* Variant: RLock does not wait for the writer.
CanRLock_NoWriterCheck == TRUE

CanLock == mu.w = NoHolder /\ mu.r = {}
CanRLock == mu.w = NoHolder

\* -------------------------------------------------------------------- clock
Tick ==
    /\ now < MaxTime
    /\ now' = now + 1
    /\ UNCHANGED <<Sources, backing, feeds, AggregatedFeed, mu, pc, fa, ncycles,
                   statsRes, serveRes, hp, sr, sched, lib>>

\* ---------------------------------------------------------------- AddSource
\* Variant: a source is registered as active.
NewSource_Active(url, name, description) ==
    [URL |-> url, Name |-> name, Description |-> description,
     LastFetch |-> 0, Status |-> "active", ErrorMsg |-> << >>,
     Born |-> 0, Cycle |-> 0]

\* Born and Cycle are history, not fields of FeedSource: the number of cycles
\* started before the source was registered and the number of the last cycle
\* that processed a result for it.
NewSource(url, name, description) ==
    [URL |-> url, Name |-> name, Description |-> description,
     LastFetch |-> 0, Status |-> "new", ErrorMsg |-> << >>,
     Born |-> 0, Cycle |-> 0]

\* append(a.Sources, x): in place while capacity lasts, else into a new array
\* of doubled capacity.
AppendSlice(hdr, arrays, x) ==
    IF hdr.len < hdr.cap
    THEN [hdr |-> [hdr EXCEPT !.len = @ + 1],
          arrays |-> [arrays EXCEPT ![hdr.arr] = Append(SubSeq(@, 1, hdr.len), x)]]
    ELSE [hdr |-> [arr |-> Len(arrays) + 1, len |-> hdr.len + 1,
                   cap |-> IF hdr.cap = 0 THEN 1 ELSE 2 * hdr.cap],
          arrays |-> Append(arrays, Append(SubSeq(arrays[hdr.arr], 1, hdr.len), x))]

\* The whole of AddSource: Lock, append, Unlock.
AddSource(url, name, description) ==
    /\ Sources.len < MaxSources
    /\ CanLock
    /\ LET r == AppendSlice(Sources, backing,
                            [NewSource(url, name, description) EXCEPT !.Born = ncycles]) IN
         /\ Sources' = r.hdr
         /\ backing' = r.arrays
    /\ UNCHANGED <<now, feeds, AggregatedFeed, mu, pc, fa, ncycles, statsRes, serveRes, hp, sr, sched, lib>>

\* ------------------------------------------------------------ FetchAllFeeds
\* Lines 155-175: Lock, make the results channel, start one goroutine per
\* source, initialise allEntries and successCount.  The caller is at a call
\* of FetchAllFeeds: "idle" for a caller that may call at any time, "call"
\* for the scheduler's goroutine, which calls once for each tick it takes.
FetchAllFeeds_Begin(c) ==
    /\ pc[c] \in {"idle", "call"}
    /\ ncycles < MaxCycles
    /\ CanLock
    /\ mu' = [mu EXCEPT !.w = c]
    /\ ncycles' = ncycles + 1
    /\ pc' = [pc EXCEPT ![c] = "collect"]
    /\ fa' = [fa EXCEPT ![c] =
                [n |-> Sources.len, cap |-> ChanCap(Sources.len), results |-> << >>,
                 wpc |-> [k \in 1..Sources.len |-> "fetch"],
                 wres |-> [k \in 1..Sources.len |-> NoResult],
                 allEntries |-> << >>, successCount |-> 0, i |-> 0,
                 aggregatedFeed |-> NilFeed, err |-> NoError,
                 id |-> ncycles + 1, start |-> now,
                 fetched |-> [k \in 1..Sources.len |-> 0],
                 processed |-> [k \in 1..Sources.len |-> 0],
                 ok |-> {}, pre |-> Srcs, old |-> AggregatedFeed, collected |-> 0,
                 served |-> [k \in 1..Sources.len |-> << >>], unsorted |-> << >>]]
    /\ UNCHANGED <<now, Sources, backing, feeds, AggregatedFeed, statsRes, serveRes, hp, sr, sched, lib>>

\* A worker goroutine, first half: feed, err := a.fetchFeedWithTimeout(src.URL),
\* the remote end answering with resp.
Fetch(c, k, resp) ==
    /\ pc[c] = "collect"
    /\ k \in 1..fa[c].n
    /\ fa[c].wpc[k] = "fetch"
    /\ LET r == fetchFeedWithTimeout([resp EXCEPT !.From = <<k, fa[c].id>>]) IN
       fa' = [fa EXCEPT ![c].wpc[k] = "send",
                        ![c].wres[k] = [index |-> WorkerIndex(k), feed |-> r.feed, err |-> r.err],
                        ![c].fetched[k] = @ + 1,
                        ![c].served[k] = <<resp>>,
                        ![c].ok = IF r.err = NoError THEN @ \cup {k} ELSE @]
    /\ UNCHANGED <<now, Sources, backing, feeds, AggregatedFeed, mu, pc, ncycles,
                   statsRes, serveRes, hp, sr, sched, lib>>

\* A worker goroutine, second half: results <- fetchResult{...}; the send
\* blocks while the channel is full.
Send(c, k) ==
    /\ pc[c] = "collect"
    /\ k \in 1..fa[c].n
    /\ fa[c].wpc[k] = "send"
    /\ Len(fa[c].results) < fa[c].cap
    /\ fa' = [fa EXCEPT ![c].wpc[k] = "done",
                        ![c].results = Append(@, fa[c].wres[k]),
                        ![c].wres[k] = NoResult]
    /\ UNCHANGED <<now, Sources, backing, feeds, AggregatedFeed, mu, pc, ncycles,
                   statsRes, serveRes, hp, sr, sched, lib>>

\* One iteration of the collecting loop (lines 178-209): receive a result,
\* update its source, collect its entries.
Collect(c) ==
    /\ pc[c] = "collect"
    /\ fa[c].i < fa[c].n
    /\ fa[c].results # << >>
    /\ LET result == Head(fa[c].results)
           arr == backing[Sources.arr]
           src == [UpdateSource(arr[result.index], result, now) EXCEPT !.Cycle = fa[c].id]
       IN
         /\ backing' = [backing EXCEPT ![Sources.arr][result.index] = src]
         /\ fa' = [fa EXCEPT ![c].results = Tail(@),
                             ![c].i = @ + 1,
                             ![c].successCount = IF result.err = NoError THEN @ + 1 ELSE @,
                             ![c].allEntries = CollectEntries(@, result, src.Name),
                             ![c].processed[result.index] = @ + 1]
    /\ UNCHANGED <<now, Sources, feeds, AggregatedFeed, mu, pc, ncycles, statsRes, serveRes, hp, sr, sched, lib>>

\* new(Feed): the lowest address not in use.
Alloc(heap) == CHOOSE j \in 1..(Cardinality(DOMAIN heap) + 1) : j \notin DOMAIN heap

\* The feeds some field or goroutine still refers to once a.AggregatedFeed is
\* ptr and the activation of c is over.
Reachable(ptr, c) == {ptr}

\* Lines 211-232, after the loop: sort, cap, build the new feed.
Build(c) ==
    /\ pc[c] = "collect"
    /\ fa[c].i >= fa[c].n
    /\ \E sorted \in SortSlice(fa[c].allEntries) :
         /\ feeds' = (Alloc(feeds) :> BuildFeed(feeds[AggregatedFeed], Cap(sorted), Sources.len, now))
                        @@ feeds
         /\ fa' = [fa EXCEPT ![c].allEntries = Cap(sorted),
                             ![c].aggregatedFeed = Alloc(feeds),
                             ![c].collected = Len(sorted),
                             ![c].unsorted = fa[c].allEntries]
    /\ pc' = [pc EXCEPT ![c] = "publish"]
    /\ UNCHANGED <<now, Sources, backing, AggregatedFeed, mu, ncycles, statsRes, serveRes, hp, sr, sched, lib>>

\* Line 234-235: a.AggregatedFeed = aggregatedFeed; return nil.  The feed
\* replaced is reclaimed unless something else refers to it.
Publish(c) ==
    /\ pc[c] = "publish"
    /\ AggregatedFeed' = fa[c].aggregatedFeed
    /\ feeds' = [j \in DOMAIN feeds \cap Reachable(fa[c].aggregatedFeed, c) |-> feeds[j]]
    /\ fa' = [fa EXCEPT ![c].err = FetchAllFeedsResult(fa[c].n, fa[c].successCount)]
    /\ pc' = [pc EXCEPT ![c] = "ret"]
    /\ UNCHANGED <<now, Sources, backing, mu, ncycles, statsRes, serveRes, hp, sr, sched, lib>>

\* The deferred a.mu.Unlock() as FetchAllFeeds returns; its locals are gone.
Return(c) ==
    /\ pc[c] = "ret"
    /\ mu' = [mu EXCEPT !.w = NoHolder]
    /\ pc' = [pc EXCEPT ![c] = "idle"]
    /\ fa' = [fa EXCEPT ![c] = NoActivation]
    /\ UNCHANGED <<now, Sources, backing, feeds, AggregatedFeed, ncycles,
                   statsRes, serveRes, hp, sr, sched, lib>>

\* ----------------------------------------------------------------- GetStats
GetStats_RLock ==
    /\ pc["stats"] = "idle"
    /\ CanRLock
    /\ mu' = [mu EXCEPT !.r = @ \cup {"stats"}]
    /\ pc' = [pc EXCEPT !["stats"] = "read"]
    /\ UNCHANGED <<now, Sources, backing, feeds, AggregatedFeed, fa, ncycles,
                   statsRes, serveRes, hp, sr, sched, lib>>

GetStats_Return ==
    /\ pc["stats"] = "read"
    /\ statsRes' = GetStatsMap(Srcs, AggregatedFeed, feeds)
    /\ mu' = [mu EXCEPT !.r = @ \ {"stats"}]
    /\ pc' = [pc EXCEPT !["stats"] = "idle"]
    /\ UNCHANGED <<now, Sources, backing, feeds, AggregatedFeed, fa, ncycles, serveRes,
                   hp, sr, sched, lib>>

\* ------------------------------------------------------ Aggregator.ServeHTTP
ServeHTTP_RLock ==
    /\ pc["serve"] = "idle"
    /\ CanRLock
    /\ mu' = [mu EXCEPT !.r = @ \cup {"serve"}]
    /\ pc' = [pc EXCEPT !["serve"] = "read"]
    /\ UNCHANGED <<now, Sources, backing, feeds, AggregatedFeed, fa, ncycles,
                   statsRes, serveRes, hp, sr, sched, lib>>

ServeHTTP_Return(inm) ==
    /\ pc["serve"] = "read"
    /\ LET r == AggregatorServeHTTP(AggregatedFeed, feeds, inm) IN
         serveRes' = [code |-> r.code, ETag |-> r.ETag, LastModified |-> r.LastModified,
                      body |-> r.body, inm |-> inm, n |-> ncycles,
                      prevETag |-> serveRes.ETag, prevN |-> serveRes.n]
    /\ mu' = [mu EXCEPT !.r = @ \ {"serve"}]
    /\ pc' = [pc EXCEPT !["serve"] = "idle"]
    /\ UNCHANGED <<now, Sources, backing, feeds, AggregatedFeed, fa, ncycles, statsRes,
                   hp, sr, sched, lib>>

\* ----------------------------------------------------------------- HomePage
\* Aggregator.HomePage takes no lock.  Line 325: a.AggregatedFeed.LastUpdated.
HomePage_LastUpdated ==
    /\ pc["home"] = "idle"
    /\ hp' = [NoHomePage EXCEPT !.lastUpdated = feeds[AggregatedFeed].LastUpdated]
    /\ pc' = [pc EXCEPT !["home"] = "range"]
    /\ UNCHANGED <<now, Sources, backing, feeds, AggregatedFeed, mu, fa, ncycles,
                   statsRes, serveRes, sr, sched, lib>>

\* Line 328: for _, src := range a.Sources evaluates the slice header once.
HomePage_Range ==
    /\ pc["home"] = "range"
    /\ hp' = [hp EXCEPT !.hdr = Sources]
    /\ pc' = [pc EXCEPT !["home"] = "sources"]
    /\ UNCHANGED <<now, Sources, backing, feeds, AggregatedFeed, mu, fa, ncycles,
                   statsRes, serveRes, sr, sched, lib>>

\* One iteration of the loop over the sources, or its end.
HomePage_Source ==
    /\ pc["home"] = "sources"
    /\ IF hp.k < hp.hdr.len
       THEN /\ hp' = [hp EXCEPT !.k = @ + 1,
                                !.srcs = Append(@, backing[hp.hdr.arr][hp.k + 1])]
            /\ pc' = pc
       ELSE /\ hp' = hp
            /\ pc' = [pc EXCEPT !["home"] = "check"]
    /\ UNCHANGED <<now, Sources, backing, feeds, AggregatedFeed, mu, fa, ncycles,
                   statsRes, serveRes, sr, sched, lib>>

\* Lines 334-338: if a.AggregatedFeed != nil && len(a.AggregatedFeed.Items) > 0,
\* then maxEntries is 10 or len(a.AggregatedFeed.Items) if that is less.
HomePage_Check ==
    /\ pc["home"] = "check"
    /\ IF AggregatedFeed # NilFeed /\ Len(feeds[AggregatedFeed].Items) > 0
       THEN pc' = [pc EXCEPT !["home"] = "max"]
       ELSE pc' = [pc EXCEPT !["home"] = "idle"]
    /\ UNCHANGED <<now, Sources, backing, feeds, AggregatedFeed, mu, fa, ncycles,
                   statsRes, serveRes, hp, sr, sched, lib>>

HomePage_Max ==
    /\ pc["home"] = "max"
    /\ hp' = [hp EXCEPT !.maxEntries =
                 IF Len(feeds[AggregatedFeed].Items) < homeMaxEntries
                 THEN Len(feeds[AggregatedFeed].Items) ELSE homeMaxEntries]
    /\ pc' = [pc EXCEPT !["home"] = "entries"]
    /\ UNCHANGED <<now, Sources, backing, feeds, AggregatedFeed, mu, fa, ncycles,
                   statsRes, serveRes, sr, sched, lib>>

\* Lines 339-351: entry := a.AggregatedFeed.Items[i], which panics when the
\* feed now published has no i-th entry; after the loop the page is written.
HomePage_Entry ==
    /\ pc["home"] = "entries"
    /\ IF hp.i >= hp.maxEntries
       THEN /\ hp' = hp
            /\ pc' = [pc EXCEPT !["home"] = "idle"]
       ELSE IF hp.i + 1 > Len(feeds[AggregatedFeed].Items)
       THEN /\ hp' = [hp EXCEPT !.panicked = TRUE]
            /\ pc' = [pc EXCEPT !["home"] = "idle"]
       ELSE /\ hp' = [hp EXCEPT !.i = @ + 1,
                                !.entries = Append(@, feeds[AggregatedFeed].Items[hp.i + 1])]
            /\ pc' = pc
    /\ UNCHANGED <<now, Sources, backing, feeds, AggregatedFeed, mu, fa, ncycles,
                   statsRes, serveRes, sr, sched, lib>>

\* ------------------------------------------------- readers of the source list
\* The /sources handler of the example: json.NewEncoder(w).Encode(aggregator.Sources)
\* reads the slice header without a lock.
Sources_Handler ==
    /\ pc["srcs"] = "idle"
    /\ sr' = [NoReader EXCEPT !.hdr = Sources]
    /\ pc' = [pc EXCEPT !["srcs"] = "read"]
    /\ UNCHANGED <<now, Sources, backing, feeds, AggregatedFeed, mu, fa, ncycles,
                   statsRes, serveRes, hp, sched, lib>>

\* GetSources: Lock, return a.Sources (the slice header, sharing the backing
\* array), Unlock.
GetSources ==
    /\ pc["srcs"] = "idle"
    /\ CanLock
    /\ sr' = [NoReader EXCEPT !.hdr = Sources]
    /\ pc' = [pc EXCEPT !["srcs"] = "read"]
    /\ UNCHANGED <<now, Sources, backing, feeds, AggregatedFeed, mu, fa, ncycles,
                   statsRes, serveRes, hp, sched, lib>>

\* The reader walks the slice it holds, one element per step.
Sources_Read ==
    /\ pc["srcs"] = "read"
    /\ IF sr.k < sr.hdr.len
       THEN /\ sr' = [sr EXCEPT !.k = @ + 1,
                                !.srcs = Append(@, backing[sr.hdr.arr][sr.k + 1])]
            /\ pc' = pc
       ELSE /\ sr' = sr
            /\ pc' = [pc EXCEPT !["srcs"] = "idle"]
    /\ UNCHANGED <<now, Sources, backing, feeds, AggregatedFeed, mu, fa, ncycles,
                   statsRes, serveRes, hp, sched, lib>>

\* --------------------------------------------------------- StartAutoRefresh
\* StartAutoRefresh: ticker := time.NewTicker(interval), then a goroutine that
\* ranges over ticker.C; the function itself calls nothing else and returns.
StartAutoRefresh ==
    /\ ~sched.started
    /\ sched' = [sched EXCEPT !.started = TRUE]
    /\ UNCHANGED <<now, Sources, backing, feeds, AggregatedFeed, mu, pc, fa, ncycles,
                   statsRes, serveRes, hp, sr, lib>>

\* The ticker fires.  ticker.C has a buffer of one and the runtime's send
\* never blocks: a goroutine waiting in the receive takes the tick at once, an
\* empty buffer keeps it, a full buffer loses it.
TickerFire ==
    /\ sched.started
    /\ sched.ticks < MaxTicks
    /\ IF pc["auto"] = "idle" /\ sched.pending = 0
       THEN /\ sched' = [sched EXCEPT !.ticks = @ + 1, !.calls = @ + 1]
            /\ pc' = [pc EXCEPT !["auto"] = "call"]
       ELSE IF sched.pending = 0
       THEN /\ sched' = [sched EXCEPT !.ticks = @ + 1, !.pending = 1]
            /\ pc' = pc
       ELSE /\ sched' = [sched EXCEPT !.ticks = @ + 1, !.dropped = @ + 1]
            /\ pc' = pc
    /\ UNCHANGED <<now, Sources, backing, feeds, AggregatedFeed, mu, fa, ncycles,
                   statsRes, serveRes, hp, sr, lib>>

\* for range ticker.C: back from FetchAllFeeds, the goroutine takes the tick
\* that is waiting in the buffer and goes on to call FetchAllFeeds.
Auto_Receive ==
    /\ sched.started
    /\ pc["auto"] = "idle"
    /\ sched.pending = 1
    /\ sched' = [sched EXCEPT !.pending = 0, !.calls = @ + 1]
    /\ pc' = [pc EXCEPT !["auto"] = "call"]
    /\ UNCHANGED <<now, Sources, backing, feeds, AggregatedFeed, mu, fa, ncycles,
                   statsRes, serveRes, hp, sr, lib>>

\* ------------------------------------------------------ users of the library
\* A program gets hold of a feed (built with NewFeed and AddEntry, decoded by
\* FromJSON, or changed through its exported fields).
Lib_Load(f) ==
    /\ lib' = [lib EXCEPT !.feed = <<f>>, !.op = "load", !.before = << >>,
                          !.err = NoError, !.expected = << >>]
    /\ UNCHANGED <<now, Sources, backing, feeds, AggregatedFeed, mu, pc, fa, ncycles,
                   statsRes, serveRes, hp, sr, sched>>

\* err := f.Validate()
Lib_Validate ==
    /\ lib.feed # << >>
    /\ lib' = [lib EXCEPT !.op = "validate", !.before = lib.feed,
                          !.err = FeedValidate(lib.feed[1]), !.expected = << >>]
    /\ UNCHANGED <<now, Sources, backing, feeds, AggregatedFeed, mu, pc, fa, ncycles,
                   statsRes, serveRes, hp, sr, sched>>

\* hash, err := f.ComputeFeedHash()
Lib_ComputeFeedHash ==
    /\ lib.feed # << >>
    /\ lib' = [lib EXCEPT !.op = "hash", !.before = lib.feed, !.err = NoError,
                          !.hash = <<ComputeFeedHash(lib.feed[1])>>,
                          !.hashOf = <<lib.feed[1].Items>>,
                          !.prevHash = lib.hash, !.prevHashOf = lib.hashOf,
                          !.expected = << >>]
    /\ UNCHANGED <<now, Sources, backing, feeds, AggregatedFeed, mu, pc, fa, ncycles,
                   statsRes, serveRes, hp, sr, sched>>

\* err := f.ValidateFeedHash(expectedHash)
Lib_ValidateFeedHash(expectedHash) ==
    /\ lib.feed # << >>
    /\ lib' = [lib EXCEPT !.op = "check", !.before = lib.feed,
                          !.err = ValidateFeedHash(lib.feed[1], expectedHash),
                          !.expected = <<expectedHash>>]
    /\ UNCHANGED <<now, Sources, backing, feeds, AggregatedFeed, mu, pc, fa, ncycles,
                   statsRes, serveRes, hp, sr, sched>>

\* ------------------------------------------------------------------- inputs
\* The k-th source registered: sources carry distinct names and URLs.
Letter(k) == IF k = 1 THEN "A" ELSE IF k = 2 THEN "B" ELSE IF k = 3 THEN "C" ELSE "D"
SourceInput(k) ==
    [url |-> S_http \o <<Letter(k)>>, name |-> <<Letter(k)>>,
     description |-> IF k = 1 THEN <<"d">> ELSE << >>]

\* The feed documents remote sources serve.  DocA is the scenario of the
\* specification (a1 older than a2); DocB ties with a2 and has no summary;
\* DocDup repeats an identifier and so fails validation.
ItemA1 == Item(<<"a", "1">>, <<"s">>, 1)
ItemA2 == Item(<<"a", "2">>, << >>, 2)
ItemB1 == Item(<<"b", "1">>, << >>, 2)
DocA == Doc(<<ItemA1, ItemA2>>)
DocB == Doc(<<ItemB1>>)
DocDup == Doc(<<ItemB1, ItemB1>>)
DocUndated == Doc(<<ItemB1, Item(<<"b", "2">>, << >>, 0)>>)

RespTimeout == Response(TRUE, 0, FALSE, DocA)          \* timeout or connection failure
RespStatus == Response(FALSE, 500, TRUE, DocA)         \* non-200 status
RespGarbage == Response(FALSE, StatusOK, FALSE, DocA)  \* body is not JSON
RespDup == Response(FALSE, StatusOK, TRUE, DocDup)     \* document fails Validate
RespUndated == Response(FALSE, StatusOK, TRUE, DocUndated)  \* an entry fails Validate
RespA == Response(FALSE, StatusOK, TRUE, DocA)
RespB == Response(FALSE, StatusOK, TRUE, DocB)

\* A large document, served to source k: BigLen items whose timestamps differ
\* from those of the large document of every other source, and whose
\* identifiers are the same for every source.
BigDoc(k) ==
    Doc([i \in 1..BigLen |-> Item(<<"x", ToString(i)>>, << >>, MaxSources * i + k)])
RespBig(k) == Response(FALSE, StatusOK, TRUE, BigDoc(k))

Responses == {RespTimeout, RespStatus, RespGarbage, RespDup, RespUndated, RespA, RespB}
FewResponses == {RespTimeout, RespA}

\* The If-None-Match values a client may present: none, the ETag of any
\* feed in the heap, or the ETag of the response it got last.
Validators == {NoTag, serveRes.ETag} \cup {ETag(feeds[j]) : j \in DOMAIN feeds}

\* The entries and feeds a user of the library works with: two valid entries
\* and an entry with the identifier of the first and a blank title; feeds of
\* up to MaxItems of them under a valid header, an unsupported version or a
\* blank title.
EntryA == DecodeEntry(Item(<<"a">>, <<"s">>, 1), <<0, 0>>)
EntryB == DecodeEntry(Item(<<"b">>, << >>, 2), <<0, 0>>)
EntryABlank == [EntryA EXCEPT !.Title = <<" ">>]
LibEntries == {EntryA, EntryB, EntryABlank}
LibItems == UNION {[1..n -> LibEntries] : n \in 0..MaxItems}
LibFeeds ==
    {[NewFeed(h[2], FeedURLA, 1) EXCEPT !.Version = h[1], !.Items = items] :
        h \in {<<Version, TitleA>>, <<"2.0", TitleA>>, <<Version, <<" ">>>>},
        items \in LibItems}

\* The feeds given to Validate alone: each of the four header fields Validate
\* looks at is good or bad, and the items are valid entries, an entry with
\* the identifier of the first and a blank title, and an entry with an
\* identifier of its own and no timestamp.
EntryCZero == [EntryA EXCEPT !.ID = <<"c">>, !.Published = 0]
ValidatedItems ==
    UNION {[1..n -> {EntryA, EntryB, EntryABlank, EntryCZero}] : n \in 0..MaxValidated}
ValidatedFeeds ==
    {[NewFeed(title, feedURL, 1) EXCEPT !.Version = version, !.HomePageURL = home,
                                        !.Items = items] :
        version \in {Version, "2.0"}, title \in {TitleA, <<" ">>},
        feedURL \in {FeedURLA, <<"f">>}, home \in {<< >>, S_https \o <<"h">>, <<"h">>},
        items \in ValidatedItems}

\* The hashes a user may expect: the one computed last, or that of any items.
ExpectedHashes ==
    {lib.hash[j] : j \in 1..Len(lib.hash)}
        \cup {<<"sha256", MarshalItems(items)>> : items \in [1..1 -> {EntryA, EntryB}]}

\* -------------------------------------------------------------------- specs
\* Spec: every goroutine of the aggregator (two callers of FetchAllFeeds, the
\* stats and feed handlers, AddSource, the clock), sources answering with a
\* failure or with DocA.
Next ==
    \/ Tick
    \/ AddSource(SourceInput(Sources.len + 1).url, SourceInput(Sources.len + 1).name,
                 SourceInput(Sources.len + 1).description)
    \/ \E c \in Callers : FetchAllFeeds_Begin(c)
    \/ \E c \in Callers, k \in 1..MaxSources, resp \in FewResponses : Fetch(c, k, resp)
    \/ \E c \in Callers, k \in 1..MaxSources : Send(c, k)
    \/ \E c \in Callers : Collect(c)
    \/ \E c \in Callers : Build(c)
    \/ \E c \in Callers : Publish(c)
    \/ \E c \in Callers : Return(c)
    \/ GetStats_RLock
    \/ GetStats_Return
    \/ ServeHTTP_RLock
    \/ \E inm \in Validators : ServeHTTP_Return(inm)

Spec == Init /\ [][Next]_vars

\* CycleSpec: one caller of FetchAllFeeds and no reader, sources answering
\* with every kind of failure and with documents whose entries tie.
CycleNext ==
    \/ Tick
    \/ AddSource(SourceInput(Sources.len + 1).url, SourceInput(Sources.len + 1).name,
                 SourceInput(Sources.len + 1).description)
    \/ FetchAllFeeds_Begin("manual")
    \/ \E k \in 1..MaxSources, resp \in Responses : Fetch("manual", k, resp)
    \/ \E k \in 1..MaxSources : Send("manual", k)
    \/ Collect("manual")
    \/ Build("manual")
    \/ Publish("manual")
    \/ Return("manual")

CycleSpec == Init /\ [][CycleNext]_vars

\* LiveSpec: one caller of FetchAllFeeds, sources answering with a failure
\* or with DocA, under the scheduling the Go runtime guarantees: every
\* goroutine that can take a step eventually takes one (each worker, whose
\* fetch returns by the client timeout at the latest, and the collector).
LiveNext ==
    \/ Tick
    \/ AddSource(SourceInput(Sources.len + 1).url, SourceInput(Sources.len + 1).name,
                 SourceInput(Sources.len + 1).description)
    \/ FetchAllFeeds_Begin("manual")
    \/ \E k \in 1..MaxSources, resp \in FewResponses : Fetch("manual", k, resp)
    \/ \E k \in 1..MaxSources : Send("manual", k)
    \/ Collect("manual")
    \/ Build("manual")
    \/ Publish("manual")
    \/ Return("manual")

WorkerStep(c, k) == (\E resp \in FewResponses : Fetch(c, k, resp)) \/ Send(c, k)
CollectorStep(c) == Collect(c) \/ Build(c) \/ Publish(c) \/ Return(c)

LiveSpec ==
    /\ Init
    /\ [][LiveNext]_vars
    /\ WF_vars(CollectorStep("manual"))
    /\ \A k \in 1..MaxSources : WF_vars(WorkerStep("manual", k))

\* RaceSpec: one caller of FetchAllFeeds together with the readers that take
\* no lock while they read (HomePage, the /sources handler, a caller of
\* GetSources walking the slice it got); sources
\* answer with a failure or with DocA.
RaceNext ==
    \/ AddSource(SourceInput(Sources.len + 1).url, SourceInput(Sources.len + 1).name,
                 SourceInput(Sources.len + 1).description)
    \/ FetchAllFeeds_Begin("manual")
    \/ \E k \in 1..MaxSources, resp \in FewResponses : Fetch("manual", k, resp)
    \/ \E k \in 1..MaxSources : Send("manual", k)
    \/ Collect("manual")
    \/ Build("manual")
    \/ Publish("manual")
    \/ Return("manual")
    \/ HomePage_LastUpdated
    \/ HomePage_Range
    \/ HomePage_Source
    \/ HomePage_Check
    \/ HomePage_Max
    \/ HomePage_Entry
    \/ Sources_Handler
    \/ GetSources
    \/ Sources_Read

RaceSpec == Init /\ [][RaceNext]_vars

\* SchedSpec: the scheduler (its ticker and its goroutine, which calls
\* FetchAllFeeds once for each tick it takes) next to a caller that triggers
\* cycles by hand; sources answer with a failure or with DocA.
SchedNext ==
    \/ AddSource(SourceInput(Sources.len + 1).url, SourceInput(Sources.len + 1).name,
                 SourceInput(Sources.len + 1).description)
    \/ StartAutoRefresh
    \/ TickerFire
    \/ Auto_Receive
    \/ pc["auto"] = "call" /\ FetchAllFeeds_Begin("auto")
    \/ pc["manual"] = "idle" /\ FetchAllFeeds_Begin("manual")
    \/ \E c \in Callers, k \in 1..MaxSources, resp \in FewResponses : Fetch(c, k, resp)
    \/ \E c \in Callers, k \in 1..MaxSources : Send(c, k)
    \/ \E c \in Callers : Collect(c)
    \/ \E c \in Callers : Build(c)
    \/ \E c \in Callers : Publish(c)
    \/ \E c \in Callers : Return(c)

SchedSpec == Init /\ [][SchedNext]_vars

\* LibSpec: a user of the library loading, validating and hashing feeds.
LibNext ==
    \/ \E f \in LibFeeds : Lib_Load(f)
    \/ Lib_Validate
    \/ Lib_ComputeFeedHash
    \/ \E h \in ExpectedHashes : Lib_ValidateFeedHash(h)

LibSpec == Init /\ [][LibNext]_vars

\* ValidateSpec: a program that loads feeds of up to MaxValidated items and
\* validates them.
ValidateNext ==
    \/ \E f \in ValidatedFeeds : Lib_Load(f)
    \/ Lib_Validate

ValidateSpec == Init /\ [][ValidateNext]_vars

\* FrameSpec: every operation of the aggregator that takes the lock, with one
\* caller of FetchAllFeeds: AddSource, the cycle, GetStats, ServeHTTP and
\* GetSources with its caller reading the slice; sources answer with a
\* failure or with DocA.
FrameNext ==
    \/ AddSource(SourceInput(Sources.len + 1).url, SourceInput(Sources.len + 1).name,
                 SourceInput(Sources.len + 1).description)
    \/ FetchAllFeeds_Begin("manual")
    \/ \E k \in 1..MaxSources, resp \in FewResponses : Fetch("manual", k, resp)
    \/ \E k \in 1..MaxSources : Send("manual", k)
    \/ Collect("manual")
    \/ Build("manual")
    \/ Publish("manual")
    \/ Return("manual")
    \/ GetStats_RLock
    \/ GetStats_Return
    \/ ServeHTTP_RLock
    \/ \E inm \in Validators : ServeHTTP_Return(inm)
    \/ GetSources
    \/ Sources_Read

FrameSpec == Init /\ [][FrameNext]_vars

\* BigSpec: as CycleSpec, sources answering with a failure, with the small
\* document DocB or with a large document, so that a cycle collects more
\* than maxEntries entries.
BigNext ==
    \/ Tick
    \/ AddSource(SourceInput(Sources.len + 1).url, SourceInput(Sources.len + 1).name,
                 SourceInput(Sources.len + 1).description)
    \/ FetchAllFeeds_Begin("manual")
    \/ \E k \in 1..MaxSources :
          \E resp \in {RespTimeout, RespB, RespBig(k)} : Fetch("manual", k, resp)
    \/ \E k \in 1..MaxSources : Send("manual", k)
    \/ Collect("manual")
    \/ Build("manual")
    \/ Publish("manual")
    \/ Return("manual")

BigSpec == Init /\ [][BigNext]_vars

\* =================================================================== claims
Published == feeds[AggregatedFeed]

\* C1: when a cycle over N sources in which K fetches failed is complete,
\* exactly the N-K sources whose fetch succeeded are 'active' and the K others
\* 'error', the stats report active + error = total = N, and every entry of
\* the published feed was fetched in this cycle from a source that succeeded.
C1_StatusAndProvenance ==
    \A c \in Callers : pc[c] = "ret" =>
        LET st == GetStatsMap(Srcs, AggregatedFeed, feeds)
            N == fa[c].n
            K == N - Cardinality(fa[c].ok)
        IN  /\ Len(Srcs) = N
            /\ \A k \in 1..N : Srcs[k].Status = IF k \in fa[c].ok THEN "active" ELSE "error"
            /\ st.active_sources = N - K
            /\ st.error_sources = K
            /\ st.total_sources = N
            /\ st.active_sources + st.error_sources = st.total_sources
            /\ \A j \in 1..Len(Published.Items) :
                  /\ Published.Items[j].Origin[2] = fa[c].id
                  /\ Published.Items[j].Origin[1] \in fa[c].ok

\* A second cycle over two sources of which one failed, completed with a
\* non-empty feed.
C1_Witness ==
    \E c \in Callers :
        /\ pc[c] = "ret"
        /\ fa[c].id = 2
        /\ fa[c].n = 2
        /\ Cardinality(fa[c].ok) = 1
        /\ Published.Items # << >>

\* C3: a cycle over a non-empty source list in which any subset of the
\* fetches failed has processed one result for every source, returns nil and
\* has published a new feed; if every fetch failed that feed has no entries.
C3_FailuresDoNotAbort ==
    \A c \in Callers : (pc[c] = "ret" /\ fa[c].n >= 1) =>
        /\ fa[c].err = NoError
        /\ \A k \in 1..fa[c].n : fa[c].processed[k] = 1 /\ Srcs[k].Status \in {"active", "error"}
        /\ AggregatedFeed = fa[c].aggregatedFeed
        /\ AggregatedFeed # fa[c].old
        /\ (fa[c].ok = {} => Published.Items = << >>)

\* A second cycle over two sources, both of which failed, completed.
C3_Witness ==
    \E c \in Callers :
        /\ pc[c] = "ret"
        /\ fa[c].id = 2
        /\ fa[c].n = 2
        /\ fa[c].ok = {}

\* C4 (as claimed): FetchAllFeeds returns an error exactly when the source
\* list is empty.
C4_FailsIffNoSources ==
    \A c \in Callers : pc[c] = "ret" => ((fa[c].err # NoError) <=> (fa[c].n = 0))

\* C9: in every cycle each source is fetched at most once and has at most one
\* result processed, every result carries the index of the source it was
\* fetched from, and when the cycle is complete each source of the registry
\* has been fetched exactly once and had exactly one result processed.
C9_OneFetchPerSource ==
    \A c \in Callers :
        /\ \A k \in 1..Len(fa[c].fetched) :
              /\ fa[c].fetched[k] <= 1
              /\ fa[c].processed[k] <= 1
              /\ (fa[c].wpc[k] = "send" => fa[c].wres[k].index = k)
        /\ \A j \in 1..Len(fa[c].results) :
              LET r == fa[c].results[j] IN
                /\ r.index \in 1..fa[c].n
                /\ (r.feed # << >> =>
                      \A x \in 1..Len(r.feed[1].Items) : r.feed[1].Items[x].Origin[1] = r.index)
                /\ \A j2 \in 1..Len(fa[c].results) :
                      j2 # j => fa[c].results[j2].index # r.index
        /\ (pc[c] = "ret" =>
              /\ fa[c].n = Sources.len
              /\ fa[c].n = Len(fa[c].pre)
              /\ \A k \in 1..fa[c].n : fa[c].fetched[k] = 1 /\ fa[c].processed[k] = 1)

\* A cycle over two sources is complete.
C9_Witness == \E c \in Callers : pc[c] = "ret" /\ fa[c].n = 2

C6_Exclusion ==
    /\ ~(InCycle("auto") /\ InCycle("manual"))
    /\ \A c \in Callers : InCycle(c) => (pc["stats"] = "idle" /\ pc["serve"] = "idle")
    /\ \A c \in Callers : InCycle(c) <=> mu.w = c
    /\ (mu.w # NoHolder => mu.r = {})

\* GetStats and Aggregator.ServeHTTP are inside their read sections together,
\* after a cycle has run.
C6_Witness == pc["stats"] = "read" /\ pc["serve"] = "read" /\ ncycles >= 1

\* C2: the published feed is ordered by Published descending (no entry is
\* followed by a strictly more recent one) and holds at most maxEntries
\* entries, in every state and so after every cycle, however many entries
\* the cycle collected.
C2_SortedAndCapped ==
    /\ Len(Published.Items) <= maxEntries
    /\ \A j \in 1..(Len(Published.Items) - 1) :
          Published.Items[j].Published >= Published.Items[j + 1].Published
    /\ \A c \in Callers : pc[c] = "ret" =>
          Len(Published.Items) = IF fa[c].collected > maxEntries THEN maxEntries
                                 ELSE fa[c].collected

\* A cycle that collected more than maxEntries entries is complete.
C2_Witness ==
    \E c \in Callers :
        /\ pc[c] = "ret"
        /\ fa[c].collected > maxEntries
        /\ Len(Published.Items) = maxEntries

\* C8: the results channel has capacity exactly N, no worker that has its
\* result ever finds the channel full, the collector leaves the loop with
\* exactly N results received and every worker finished, and every cycle
\* that has started returns and releases the lock.
C8_ChannelSafe ==
    \A c \in Callers :
        /\ InCycle(c) => fa[c].cap = fa[c].n /\ Len(fa[c].results) <= fa[c].cap
        /\ \A k \in 1..Len(fa[c].wpc) :
              fa[c].wpc[k] = "send" => Len(fa[c].results) < fa[c].cap
        /\ (pc[c] \in {"publish", "ret"} =>
              /\ fa[c].i = fa[c].n
              /\ fa[c].results = << >>
              /\ \A k \in 1..fa[c].n : fa[c].wpc[k] = "done")

C8_NoDeadlock ==
    /\ []C8_ChannelSafe
    /\ \A c \in Callers : (pc[c] = "collect") ~> (pc[c] = "idle" /\ mu.w # c)

\* Both workers of a cycle over two sources have deposited their results
\* before the collector has received any: the channel is full.
C8_Witness ==
    \E c \in Callers :
        /\ pc[c] = "collect"
        /\ fa[c].n = 2
        /\ Len(fa[c].results) = 2
        /\ fa[c].i = 0


\* The sources of a view taken by a reader do not disagree about a cycle: no
\* source of the view carries the update of a cycle that another source of
\* the view, registered before that cycle began, does not carry.
ViewConsistent(view) ==
    \A x, y \in 1..Len(view) : view[x].Born < view[y].Cycle => view[x].Cycle >= view[y].Cycle

\* C5 (as claimed): a reader observes one complete feed, the previous or the
\* new one: the entries a HomePage request has read all belong to the feed of
\* one cycle, and the request never finds the feed shorter than the length it
\* has read.
C5_ReaderSeesOneFeed ==
    /\ ~hp.panicked
    /\ \A x, y \in 1..Len(hp.entries) : hp.entries[x].Origin[2] = hp.entries[y].Origin[2]

\* C7 (as claimed): every view of the source list taken by HomePage, by the
\* /sources handler or by a caller of GetSources shows the sources all before
\* or all after a cycle.
C7_NoHalfUpdatedView ==
    /\ ViewConsistent(hp.srcs)
    /\ ViewConsistent(sr.srcs)


\* C11: when a cycle is complete every entry of the published feed is an item
\* of the document its source was served in this cycle, with the summary
\* "[<name>] <summary>" if the item had a summary and "From <name>" if not,
\* <name> being the name of that source, and every other field as served.
C11_SummaryOnly ==
    \A c \in Callers : pc[c] = "ret" =>
        \A j \in 1..Len(Published.Items) :
            LET e == Published.Items[j]
                k == e.Origin[1]
                name == Srcs[k].Name
            IN /\ k \in fa[c].ok
               /\ \E x \in 1..Len(fa[c].served[k][1].Doc.items) :
                    LET it == fa[c].served[k][1].Doc.items[x] IN
                      /\ e.ID = it.id
                      /\ e.Title = it.title
                      /\ e.URL = it.url
                      /\ e.Published = it.published
                      /\ e.Image = it.image
                      /\ e.Summary = IF it.summary # << >>
                                     THEN <<"[">> \o name \o <<"]", " ">> \o it.summary
                                     ELSE <<"F", "r", "o", "m", " ">> \o name

\* A complete cycle whose feed has an entry that was served with a summary and
\* one that was served without.
C11_Witness ==
    \E c \in Callers :
        /\ pc[c] = "ret"
        /\ \E i, j \in 1..Len(Published.Items) :
             /\ Published.Items[i].Summary = <<"[", "A", "]", " ", "s">>
             /\ Published.Items[j].Summary = <<"F", "r", "o", "m", " ", "A">>

\* The place of entry e in the sequence seq.
Position(e, seq) == CHOOSE p \in 1..Len(seq) : seq[p] = e

\* C12 (as claimed): entries with equal published timestamps are in the
\* published feed in the order in which they were collected.
C12_StableSort ==
    \A c \in Callers : pc[c] = "ret" =>
        \A i, j \in 1..Len(Published.Items) :
            (i < j /\ Published.Items[i].Published = Published.Items[j].Published)
                => Position(Published.Items[i], fa[c].unsorted)
                     < Position(Published.Items[j], fa[c].unsorted)


\* C13: a request is answered 304 with no body exactly when its If-None-Match
\* equals the ETag of the feed, otherwise 200 with the feed, its ETag and its
\* Last-Modified; the ETag is "beam-<last updated>-<item count>" of the feed
\* served; and a request that presents the ETag of the response before it,
\* no cycle having run in between, is answered 304.
C13_Conditional ==
    serveRes.code # 0 =>
        /\ serveRes.code \in {200, 304}
        /\ (serveRes.code = 304) <=> (serveRes.inm = serveRes.ETag)
        /\ serveRes.code = 304 => serveRes.body = << >>
        /\ serveRes.code = 200 =>
              /\ Len(serveRes.body) = 1
              /\ serveRes.LastModified = serveRes.body[1].LastUpdated
              /\ serveRes.ETag = <<"beam-", serveRes.body[1].LastUpdated, "-",
                                   Len(serveRes.body[1].Items)>>
        /\ (serveRes.n = ncycles /\ \A c \in Callers : pc[c] # "ret") =>
              serveRes.ETag = <<"beam-", Published.LastUpdated, "-", Len(Published.Items)>>
        /\ (serveRes.prevETag # NoTag /\ serveRes.inm = serveRes.prevETag
               /\ serveRes.n = serveRes.prevN) => serveRes.code = 304

\* The feed of a cycle served twice, the second request presenting the ETag
\* of the first response.
C13_Witness ==
    /\ serveRes.code = 304
    /\ serveRes.n >= 1
    /\ serveRes.n = serveRes.prevN
    /\ serveRes.inm = serveRes.prevETag
    /\ Len(Published.Items) > 0

\* C14 (as claimed): a request that follows a cycle and presents the ETag
\* served before that cycle is answered 200 with a body.
C14_CycleChangesETag ==
    (serveRes.code # 0 /\ serveRes.prevETag # NoTag /\ serveRes.inm = serveRes.prevETag
        /\ serveRes.n > serveRes.prevN)
      => (serveRes.code = 200 /\ serveRes.body # << >>)

\* C15 (as claimed): a request answered before any cycle has run is answered
\* 503.
C15_UnavailableBeforeFirstCycle ==
    (serveRes.code # 0 /\ serveRes.n = 0) => serveRes.code = 503


\* C16 (as claimed): the scheduler runs a cycle at once when it is started:
\* by the time the first tick has fired its goroutine has made one call of
\* FetchAllFeeds more than the ticks it has taken.
C16_ImmediateCycle ==
    sched.ticks >= 1 => sched.calls > sched.ticks - sched.pending - sched.dropped

\* C17 (as claimed): no tick is skipped or coalesced: every tick that has
\* fired has led to a call of FetchAllFeeds or is waiting for the goroutine.
C17_NoTickSkipped ==
    sched.ticks = sched.calls + sched.pending


\* Two of the items have the same identifier; the place of the first item
\* that repeats an identifier before it.
HasDuplicate(items) ==
    \E x, y \in 1..Len(items) : x < y /\ items[x].ID = items[y].ID
FirstDuplicate(items) ==
    CHOOSE y \in 1..Len(items) :
        /\ \E x \in 1..(y - 1) : items[x].ID = items[y].ID
        /\ \A z \in 1..(y - 1) : \A x \in 1..(z - 1) : items[x].ID # items[z].ID

StatusFields(src) == <<src.Status, src.LastFetch, src.ErrorMsg>>

\* C20: in every step the registered sources stay, in their places and with
\* their URL, name and description; the status, LastFetch and error message
\* of a source change only in the collecting loop of a cycle; a step that
\* adds a source adds one, with status "new", and leaves the other sources
\* and the published feed as they are; a step of GetStats, ServeHTTP or
\* GetSources and its caller changes neither the sources nor the feed.
C20_Frame ==
    [][ /\ Sources'.len >= Sources.len
        /\ \A k \in 1..Sources.len :
              /\ Srcs'[k].URL = Srcs[k].URL
              /\ Srcs'[k].Name = Srcs[k].Name
              /\ Srcs'[k].Description = Srcs[k].Description
              /\ StatusFields(Srcs'[k]) # StatusFields(Srcs[k]) =>
                    (mu.w \in Callers /\ pc[mu.w] = "collect")
        /\ Sources'.len > Sources.len =>
              /\ Sources'.len = Sources.len + 1
              /\ StatusFields(Srcs'[Sources'.len]) = <<"new", 0, << >> >>
              /\ \A k \in 1..Sources.len : Srcs'[k] = Srcs[k]
              /\ AggregatedFeed' = AggregatedFeed
              /\ feeds'[AggregatedFeed'] = feeds[AggregatedFeed]
        /\ (\/ pc'["stats"] # pc["stats"] \/ pc'["serve"] # pc["serve"]
            \/ pc'["srcs"] # pc["srcs"] \/ sr' # sr) =>
              /\ Srcs' = Srcs
              /\ AggregatedFeed' = AggregatedFeed
              /\ feeds' = feeds
      ]_vars

\* A source registered after a cycle next to one the cycle has updated, the
\* stats, the feed and the source list having been read since.
C20_Witness ==
    /\ Sources.len = 2
    /\ Srcs[1].Status \in {"active", "error"}
    /\ Srcs[2].Status = "new"
    /\ statsRes.total_sources = 2
    /\ serveRes.n >= 1
    /\ sr.srcs # << >>
    /\ Len(sr.srcs) = 2

\* The place of the first item that is not valid by itself (0: there is none)
\* and the error Validate reports when it checks, in this order: version,
\* title, feed_url, home_page_url, every entry, and then the identifiers.
FirstInvalid(items) ==
    IF \A x \in 1..Len(items) : EntryValidate(items[x]) = NoError THEN 0
    ELSE CHOOSE x \in 1..Len(items) :
            /\ EntryValidate(items[x]) # NoError
            /\ \A z \in 1..(x - 1) : EntryValidate(items[z]) = NoError
ListedOrderError(f) ==
    LET header == FeedValidate([f EXCEPT !.Items = << >>])
        x == FirstInvalid(f.Items)
    IN  IF header # NoError THEN header
        ELSE IF x # 0 THEN <<"entry", ToString(x - 1)>> \o EntryValidate(f.Items[x])
        ELSE IF HasDuplicate(f.Items) THEN NewError("items", "duplicate entry ID")
        ELSE NoError

\* C21: Validate reports the first failing check in the order version, title,
\* feed_url, home_page_url, every entry (error tagged with the entry's index)
\* and, after all entries, the duplicate identifiers; so a feed with a
\* duplicate identifier and an invalid entry fails with the entry's error.
C21_EntriesBeforeDuplicates ==
    lib.op = "validate" => lib.err = ListedOrderError(lib.feed[1])

\* The part of C21 that the loop keeps: the four header checks come first and
\* in order, and an invalid entry with no repeated identifier before it is
\* reported under its index.
C21_HeaderOrder ==
    lib.op = "validate" =>
        LET f == lib.feed[1]
            x == FirstInvalid(f.Items)
        IN  /\ f.Version # Version => lib.err = NewError("version", "unsupported version")
            /\ (f.Version = Version /\ TrimSpace(f.Title) = << >>)
                  => lib.err = NewError("title", "title is required")
            /\ (FeedValidate([f EXCEPT !.Items = << >>]) = NoError /\ x # 0
                    /\ ~HasDuplicate(SubSeq(f.Items, 1, x)))
                  => lib.err = <<"entry", ToString(x - 1)>> \o EntryValidate(f.Items[x])

\* A feed with a valid header whose second item repeats the first and whose
\* third item has no timestamp, validated: the error is that of field "items".
C21_DuplicateBeforeInvalid ==
    /\ lib.op = "validate"
    /\ lib.feed # << >>
    /\ lib.feed[1].Items = <<EntryA, EntryA, EntryCZero>>
    /\ FeedValidate([lib.feed[1] EXCEPT !.Items = << >>]) = NoError
    /\ lib.err = NewError("items", "duplicate entry ID")

\* The items served in cycle c to the sources whose fetch succeeded, each as
\* <<source, place in its document>>, and whether the published feed holds
\* the entry made of item p.
ServedItems(c) ==
    UNION {{<<k, x>> : x \in 1..Len(fa[c].served[k][1].Doc.items)} : k \in fa[c].ok}
ServedItem(c, p) == fa[c].served[p[1]][1].Doc.items[p[2]]
Retained(c, p) ==
    \E j \in 1..Len(Published.Items) :
        /\ Published.Items[j].Origin[1] = p[1]
        /\ Published.Items[j].ID = ServedItem(c, p).id

\* C22: when a cycle is complete the published feed holds min(100, n) of the n
\* items served to the successful sources, each at most once and most recent
\* first; every item left out is no more recent than every entry kept; all
\* items are there when n <= 100; items of two sources with the same
\* identifier are both kept.
C22_OnlyTheCapRemoves ==
    \A c \in Callers : pc[c] = "ret" =>
        LET n == Cardinality(ServedItems(c)) IN
        /\ Len(Published.Items) = IF n > maxEntries THEN maxEntries ELSE n
        /\ \A i, j \in 1..Len(Published.Items) :
              /\ i < j => Published.Items[i].Published >= Published.Items[j].Published
              /\ i # j => \/ Published.Items[i].Origin[1] # Published.Items[j].Origin[1]
                          \/ Published.Items[i].ID # Published.Items[j].ID
        /\ \A j \in 1..Len(Published.Items) :
              \E p \in ServedItems(c) :
                  /\ Published.Items[j].Origin[1] = p[1]
                  /\ Published.Items[j].ID = ServedItem(c, p).id
        /\ \A p \in ServedItems(c) :
              \/ Retained(c, p)
              \/ /\ n > maxEntries
                 /\ \A j \in 1..Len(Published.Items) :
                       ServedItem(c, p).published <= Published.Items[j].Published

\* A complete cycle in which two sources were served more than maxEntries
\* items with the same identifiers: the feed holds maxEntries entries, two of
\* them with one identifier, and an item was left out.
C22_Witness ==
    \E c \in Callers :
        /\ pc[c] = "ret"
        /\ Cardinality(ServedItems(c)) > maxEntries
        /\ Len(Published.Items) = maxEntries
        /\ \E i, j \in 1..Len(Published.Items) :
              /\ Published.Items[i].ID = Published.Items[j].ID
              /\ Published.Items[i].Origin[1] # Published.Items[j].Origin[1]
        /\ \E p \in ServedItems(c) : ~Retained(c, p)

\* C23 (as claimed): the feed a cycle has published carries the configured
\* title and feed URL, and its description states the number of sources
\* whose fetch succeeded in that cycle.
C23_DescriptionCountsSuccesses ==
    \A c \in Callers : pc[c] = "ret" =>
        /\ Published.Title = TitleA
        /\ Published.FeedURL = FeedURLA
        /\ Published.Description
             = <<"Aggregated content from", Cardinality(fa[c].ok), "sources">>

\* What the cycle writes: the title and the URL as configured, in every state,
\* and a description that states the number of registered sources.
C23_DescriptionCountsSources ==
    /\ Published.Title = TitleA
    /\ Published.FeedURL = FeedURLA
    /\ \A c \in Callers : pc[c] = "ret" =>
          Published.Description = <<"Aggregated content from", fa[c].n, "sources">>

\* A second cycle over two sources, one of which failed, completed: the
\* description says two sources.
C23_OneOfTwoFailed ==
    \E c \in Callers :
        /\ pc[c] = "ret"
        /\ fa[c].id = 2
        /\ fa[c].n = 2
        /\ Cardinality(fa[c].ok) = 1
        /\ Published.Description = <<"Aggregated content from", 2, "sources">>

\* C24: a source's fetch succeeds in a cycle only if it was served a response
\* with status 200 whose body decodes to a document that passes Validate; the
\* feed a successful result carries is the decoded document, unchanged by the
\* validation; every entry of the published feed has a non-blank identifier
\* and title, an http(s) URL and a non-zero timestamp, and passes
\* Entry.Validate.
C24_AdmittedAfterValidation ==
    /\ \A c \in Callers : InCycle(c) =>
          \A k \in 1..fa[c].n : fa[c].served[k] # << >> =>
              LET resp == [fa[c].served[k][1] EXCEPT !.From = <<k, fa[c].id>>]
                  sent == {fa[c].wres[k]}
                             \cup {fa[c].results[x] : x \in 1..Len(fa[c].results)}
              IN  /\ k \in fa[c].ok =>
                        /\ ~resp.TransportErr
                        /\ resp.StatusCode = StatusOK
                        /\ resp.WellFormed
                        /\ FeedValidate(Decode(resp).feed[1]) = NoError
                  /\ \A r \in sent : (r.index = k /\ r.err = NoError) =>
                        /\ k \in fa[c].ok
                        /\ r.feed = Decode(resp).feed
                  /\ \A r \in sent : (r.index = k /\ r.err # NoError) =>
                        /\ k \notin fa[c].ok
                        /\ r.feed = << >>
    /\ \A j \in 1..Len(Published.Items) :
          LET e == Published.Items[j] IN
          /\ TrimSpace(e.ID) # << >>
          /\ TrimSpace(e.Title) # << >>
          /\ HasPrefix(e.URL, S_http) \/ HasPrefix(e.URL, S_https)
          /\ e.Published # 0
          /\ EntryValidate(e) = NoError

\* A complete cycle over two sources: one was served a document with an entry
\* that has no timestamp and failed, the other succeeded and its entries are
\* published.
C24_Witness ==
    \E c \in Callers :
        /\ pc[c] = "ret"
        /\ fa[c].n = 2
        /\ \E k \in 1..2 :
              /\ fa[c].served[k] = <<RespUndated>>
              /\ k \notin fa[c].ok
              /\ Srcs[k].Status = "error"
        /\ Cardinality(fa[c].ok) = 1
        /\ Published.Items # << >>

\* C25: in every state a.AggregatedFeed refers to a feed and that feed has a
\* last-updated timestamp, so no stats query and no request has met a missing
\* value; and no step makes the published feed's timestamp smaller.
C25_FeedAlwaysThere ==
    /\ [](/\ AggregatedFeed # NilFeed
          /\ AggregatedFeed \in DOMAIN feeds
          /\ Published.LastUpdated # NilTime
          /\ Published.LastUpdated >= 1
          /\ ~statsRes.panic
          /\ statsRes.last_updated # NilTime
          /\ serveRes # NoResponse => /\ serveRes.code \in {200, 304}
                                      /\ serveRes.LastModified # NilTime)
    /\ [][Published'.LastUpdated >= Published.LastUpdated]_vars

\* Two cycles are over, the second published a feed with a later timestamp
\* than the first feed had, and the stats query and a request made since then
\* saw that feed.
C25_Witness ==
    /\ ncycles = 2
    /\ \A c \in Callers : pc[c] = "idle"
    /\ Sources.len >= 1
    /\ Published.LastUpdated > 1
    /\ statsRes.last_updated = Published.LastUpdated
    /\ serveRes.code = 200
    /\ serveRes.ETag = ETag(Published)

\* What the outcomes of cycle c determine, whatever the order of arrival: the
\* result of the fetch of source k, and the entry at place j of the feed, made
\* of the served item that has j - 1 served items more recent than itself.
Outcome(c, k) == fetchFeedWithTimeout([fa[c].served[k][1] EXCEPT !.From = <<k, fa[c].id>>])
DistinctTimestamps(c) ==
    \A p, q \in ServedItems(c) :
        p # q => ServedItem(c, p).published # ServedItem(c, q).published
Ranked(c, j) ==
    CHOOSE p \in ServedItems(c) :
        Cardinality({q \in ServedItems(c) :
                        ServedItem(c, q).published > ServedItem(c, p).published}) = j - 1
EntryOf(c, p) ==
    Enrich(DecodeEntry(ServedItem(c, p), <<p[1], fa[c].id>>), Srcs[p[1]].Name)

\* C26: when a cycle is complete and the items served to its successful
\* sources have pairwise distinct timestamps, the status and error message of
\* every source and the sequence of published entries are those fixed by the
\* source list and by what each source was served, in whatever order the
\* results arrived at the collector.
C26_ArrivalOrderIrrelevant ==
    \A c \in Callers : (pc[c] = "ret" /\ DistinctTimestamps(c)) =>
        LET n == Cardinality(ServedItems(c))
            m == IF n > maxEntries THEN maxEntries ELSE n
        IN  /\ \A k \in 1..fa[c].n :
                  /\ Srcs[k].Status = IF Outcome(c, k).err = NoError THEN "active" ELSE "error"
                  /\ Srcs[k].ErrorMsg = Outcome(c, k).err
            /\ Published.Items = [j \in 1..m |-> EntryOf(c, Ranked(c, j))]

\* A complete cycle over two sources that both succeeded with items of
\* distinct timestamps, more than maxEntries in all, in which the result of
\* the second source arrived before that of the first.
C26_Witness ==
    \E c \in Callers :
        /\ pc[c] = "ret"
        /\ fa[c].ok = {1, 2}
        /\ DistinctTimestamps(c)
        /\ Cardinality(ServedItems(c)) > maxEntries
        /\ fa[c].unsorted[1].Origin[1] = 2
        /\ Published.Items[1].Origin[1] = 2
        /\ Published.Items[2].Origin[1] = 1

====
